---- MODULE Spec2Model ----
(***************************************************************************)
(* Model of the signal-driven auto-trading core of FinancialGuiApp:        *)
(* TradeModel (src/src/core/models.py), TradeController                    *)
(* (src/src/core/controllers.py) and find_peaks_and_valleys                *)
(* (src/src/core/utils.py).                                                *)
(*                                                                         *)
(* Prices are integers (hundredths); timestamps are the integers           *)
(* 1..MaxTime; a DataFrame is the sequence of its rows, and its index      *)
(* labels are the row positions (plot_view.py resets the index of every    *)
(* window it hands to auto_trade).                                         *)
(***************************************************************************)
EXTENDS Integers, Sequences, FiniteSets

\* ------------------------------------------------------------------ bounds
MaxTime == 3
MaxLen == 2
MaxTrades == 2
MaxTradesRecorded == 1
MaxLenRecorded == 3
MaxDetectLen == 6
MaxClose == 3
MaxDistance == 2
MaxReplayTime == 3
MaxPending == 1

\* ------------------------------------------------------- program constants
None == 0
Buy == 0
Neutral == 1
Sell == 2
DefaultFurthestIndex == 100
DefaultDistance == 5
PromNum == 1
PromDen == 10

\* The price file: the close of the bar at time t is File[t].
File == <<5, 7, 4, 6, 3, 8, 2, 9>>

Times == 1..MaxTime
Dates == {None} \cup Times

Min(S) == CHOOSE x \in S : \A y \in S : x <= y
Max(S) == CHOOSE x \in S : \A y \in S : x >= y

\* ------------------------------------------------------------- TradeModel
VARIABLES trades, current_trade, current_date, data, last, call, app

vars == <<trades, current_trade, current_date, data, last, call, app>>

\* The model object as one value.
Model == [trades |-> trades, current_trade |-> current_trade,
          current_date |-> current_date, data |-> data]

\* A DataFrame has the column Close when its rows carry that field.
HasClose(df) == \A i \in 1..Len(df) : "Close" \in DOMAIN df[i]

\* self.data = data.copy(); get_close_price reads only Time and Close.
RowsOf(df) ==
    IF HasClose(df)
    THEN [i \in 1..Len(df) |-> [Time |-> df[i].Time, Close |-> df[i].Close]]
    ELSE [i \in 1..Len(df) |-> [Time |-> df[i].Time]]

set_data(m, df) == [m EXCEPT !.data = <<RowsOf(df)>>]

\* get_close_price falling back to the latest bar when no bar matches.
get_close_price_latest_bar(m, date) ==
    IF m.data = <<>>
    THEN [val |-> None, exc |-> "AttributeError"]
    ELSE LET rows == m.data[1]
             hit == {i \in 1..Len(rows) : rows[i].Time = date}
         IN IF Len(rows) = 0 \/ ~HasClose(rows)
            THEN [val |-> None, exc |-> "none"]
            ELSE IF hit = {}
            THEN [val |-> rows[Len(rows)].Close, exc |-> "none"]
            ELSE [val |-> rows[Min(hit)].Close, exc |-> "none"]

\* float(self.data.loc[self.data['Time'] == date, 'Close'].iloc[0]):
\* data None -> AttributeError escapes; no column Close -> KeyError, no
\* matching row -> IndexError, both caught, returns None.
get_close_price(m, date) ==
    IF m.data = <<>>
    THEN [val |-> None, exc |-> "AttributeError"]
    ELSE LET rows == m.data[1]
             hit == {i \in 1..Len(rows) : rows[i].Time = date}
         IN IF hit = {} \/ ~HasClose(rows)
            THEN [val |-> None, exc |-> "none"]
            ELSE [val |-> rows[Min(hit)].Close, exc |-> "none"]

\* ------------------------------------------------- find_peaks_and_valleys
Closes(df) == [i \in 1..Len(df) |-> df[i].Close]

Negated(x) == [i \in 1..Len(x) |-> 0 - x[i]]

\* _local_maxima_1d taking the window's edges for lower neighbours.
local_maxima_1d_open_edges(x) ==
    { (l + r) \div 2 : <<l, r>> \in
        { lr \in (1..Len(x)) \X (1..Len(x)) :
            /\ lr[1] <= lr[2]
            /\ \A i \in lr[1]..lr[2] : x[i] = x[lr[1]]
            /\ (lr[1] > 1 => x[lr[1] - 1] < x[lr[1]])
            /\ (lr[2] < Len(x) => x[lr[2] + 1] < x[lr[2]]) } }

\* scipy _local_maxima_1d: the midpoint of every plateau that is strictly
\* higher than both of its neighbours; the first and last sample have only
\* one neighbour and are never maxima.
local_maxima_1d(x) ==
    { (l + r) \div 2 : <<l, r>> \in
        { lr \in (2..Len(x) - 1) \X (2..Len(x) - 1) :
            /\ lr[1] <= lr[2]
            /\ \A i \in lr[1]..lr[2] : x[i] = x[lr[1]]
            /\ x[lr[1] - 1] < x[lr[1]]
            /\ x[lr[2] + 1] < x[lr[2]] } }

\* The distance filter left out: every local maximum is kept.
select_by_peak_distance_off(todo, keep, x, distance) == keep

\* scipy _select_by_peak_distance: peaks are visited from the highest to the
\* lowest (equal heights: the later one first) and a visited peak that is
\* still kept removes every other peak closer than `distance`.
RECURSIVE select_by_peak_distance(_, _, _, _)
select_by_peak_distance(todo, keep, x, distance) ==
    IF todo = {} THEN keep
    ELSE LET j == CHOOSE p \in todo : \A q \in todo :
                      x[p] > x[q] \/ (x[p] = x[q] /\ p >= q)
         IN IF j \notin keep
            THEN select_by_peak_distance(todo \ {j}, keep, x, distance)
            ELSE select_by_peak_distance(todo \ {j},
                     {k \in keep : k = j \/ k - j >= distance \/ j - k >= distance},
                     x, distance)

\* scipy _peak_prominences (wlen = None): the peak's height above the higher
\* of the two lowest points reached going left and right until a sample
\* higher than the peak (or the edge of the window).
peak_prominence(x, p) ==
    LET lo == Min({l \in 1..p : \A i \in l..p : x[i] <= x[p]})
        hi == Max({r \in p..Len(x) : \A i \in p..r : x[i] <= x[p]})
        left_min  == Min({x[i] : i \in lo..p})
        right_min == Min({x[i] : i \in p..hi})
    IN x[p] - (IF left_min >= right_min THEN left_min ELSE right_min)

\* MinMaxScaler(feature_range=(0, 1)): x -> (x - min) / scale, where scale is
\* max - min, or 1 for a constant column.  Scaling by a positive factor keeps
\* every order comparison, so the extrema are found on the raw closes and only
\* the prominence threshold is scaled.
ScaleOf(x) ==
    LET vals == {x[i] : i \in 1..Len(x)}
    IN IF Max(vals) = Min(vals) THEN 1 ELSE Max(vals) - Min(vals)

\* scipy find_peaks(x_scaled, distance=, prominence=pnum/pden): local maxima,
\* then the distance filter, then the prominence filter.
find_peaks(x, scale, distance, pnum, pden) ==
    LET maxima == local_maxima_1d(x)
        spaced == select_by_peak_distance(maxima, maxima, x, distance)
    IN {p \in spaced : peak_prominence(x, p) * pden >= pnum * scale}

\* The signal column with the two marks exchanged.
signal_array_exchanged(df, distance, pnum, pden) ==
    LET close == Closes(df)
        scale == ScaleOf(close)
        peak_indices   == find_peaks(close, scale, distance, pnum, pden)
        valley_indices == find_peaks(Negated(close), scale, distance, pnum, pden)
    IN [i \in 1..Len(df) |->
          IF i \in valley_indices THEN Sell
          ELSE IF i \in peak_indices THEN Buy
          ELSE Neutral]

\* The three assignments with the last two in the other order.
mark_signal_peaks_last(n, peak_indices, valley_indices) ==
    [i \in 1..n |->
        IF i \in peak_indices THEN Sell
        ELSE IF i \in valley_indices THEN Buy
        ELSE Neutral]

\* Lines 96-98: 1 everywhere, then 2 on the peaks, then 0 on the valleys; a
\* later assignment overwrites an earlier one.
mark_signal(n, peak_indices, valley_indices) ==
    [i \in 1..n |->
        IF i \in valley_indices THEN Buy
        ELSE IF i \in peak_indices THEN Sell
        ELSE Neutral]

\* The full signal column.
signal_array(df, distance, pnum, pden) ==
    LET close == Closes(df)
        scale == ScaleOf(close)
        peak_indices   == find_peaks(close, scale, distance, pnum, pden)
        valley_indices == find_peaks(Negated(close), scale, distance, pnum, pden)
    IN mark_signal(Len(df), peak_indices, valley_indices)

\* find_peaks_and_valleys(df_window, distance, prominence, rolling):
\* df['Close'] raises KeyError when the column is missing; MinMaxScaler
\* rejects an empty column and find_peaks rejects distance < 1, both with
\* ValueError.
find_peaks_and_valleys(df, distance, pnum, pden, rolling) ==
    IF ~HasClose(df)
    THEN [val |-> Neutral, exc |-> "KeyError"]
    ELSE IF Len(df) = 0 \/ distance < 1
    THEN [val |-> Neutral, exc |-> "ValueError"]
    ELSE LET signal == signal_array(df, distance, pnum, pden)
         IN [val |-> IF rolling THEN signal[Len(df)] ELSE signal, exc |-> "none"]

\* -------------------------------------------------------- TradeController
EmptyTrade == <<>>

\* close_trade putting the closed trade in front of the ledger.
close_trade_try_prepend(m) ==
    IF m.current_trade # EmptyTrade /\ m.current_trade[1].status = "open"
    THEN LET exit_price == get_close_price(m, m.current_date)
             trade == m.current_trade[1]
             profit == IF trade.type = "buy"
                       THEN exit_price.val - trade.entry_price
                       ELSE trade.entry_price - exit_price.val
             closed == [type |-> trade.type, entry_date |-> trade.entry_date,
                        entry_price |-> trade.entry_price, status |-> "closed",
                        exit_date |-> m.current_date,
                        exit_price |-> exit_price.val, profit |-> profit]
         IN IF exit_price.exc # "none"
            THEN [m |-> m, exc |-> exit_price.exc]
            ELSE IF exit_price.val = None
            THEN [m |-> m, exc |-> "ValueError"]
            ELSE [m |-> [m EXCEPT !.trades = <<closed>> \o m.trades,
                                  !.current_trade = EmptyTrade],
                  exc |-> "none"]
    ELSE [m |-> m, exc |-> "none"]

\* close_trade without the status test, leaving the closed row in the slot.
close_trade_try_keep_slot(m) ==
    IF m.current_trade # EmptyTrade
    THEN LET exit_price == get_close_price(m, m.current_date)
             trade == m.current_trade[1]
             profit == IF trade.type = "buy"
                       THEN exit_price.val - trade.entry_price
                       ELSE trade.entry_price - exit_price.val
             closed == [type |-> trade.type, entry_date |-> trade.entry_date,
                        entry_price |-> trade.entry_price, status |-> "closed",
                        exit_date |-> m.current_date,
                        exit_price |-> exit_price.val, profit |-> profit]
         IN IF exit_price.exc # "none"
            THEN [m |-> m, exc |-> exit_price.exc]
            ELSE IF exit_price.val = None
            THEN [m |-> m, exc |-> "ValueError"]
            ELSE [m |-> [m EXCEPT !.trades = Append(m.trades, closed),
                                  !.current_trade = <<[trade EXCEPT !.status = "closed"]>>],
                  exc |-> "none"]
    ELSE [m |-> m, exc |-> "none"]

\* close_trade computing every profit as exit_price - entry_price.
close_trade_try_long_profit(m) ==
    IF m.current_trade # EmptyTrade /\ m.current_trade[1].status = "open"
    THEN LET exit_price == get_close_price(m, m.current_date)
             trade == m.current_trade[1]
             profit == exit_price.val - trade.entry_price
             closed == [type |-> trade.type, entry_date |-> trade.entry_date,
                        entry_price |-> trade.entry_price, status |-> "closed",
                        exit_date |-> m.current_date,
                        exit_price |-> exit_price.val, profit |-> profit]
         IN IF exit_price.exc # "none"
            THEN [m |-> m, exc |-> exit_price.exc]
            ELSE IF exit_price.val = None
            THEN [m |-> m, exc |-> "ValueError"]
            ELSE [m |-> [m EXCEPT !.trades = Append(m.trades, closed),
                                  !.current_trade = EmptyTrade],
                  exc |-> "none"]
    ELSE [m |-> m, exc |-> "none"]

\* close_trade, the body of its try block.
close_trade_try(m) ==
    IF m.current_trade # EmptyTrade /\ m.current_trade[1].status = "open"
    THEN LET exit_price == get_close_price(m, m.current_date)
             trade == m.current_trade[1]
             profit == IF trade.type = "buy"
                       THEN exit_price.val - trade.entry_price
                       ELSE trade.entry_price - exit_price.val
             closed == [type |-> trade.type, entry_date |-> trade.entry_date,
                        entry_price |-> trade.entry_price, status |-> "closed",
                        exit_date |-> m.current_date,
                        exit_price |-> exit_price.val, profit |-> profit]
         IN IF exit_price.exc # "none"
            THEN [m |-> m, exc |-> exit_price.exc]
            ELSE IF exit_price.val = None
            THEN [m |-> m, exc |-> "ValueError"]
            ELSE [m |-> [m EXCEPT !.trades = Append(m.trades, closed),
                                  !.current_trade = EmptyTrade],
                  exc |-> "none"]
    ELSE [m |-> m, exc |-> "none"]

\* close_trade: try: ... except Exception: print(...)
close_trade(m) == [m |-> close_trade_try(m).m, exc |-> "none"]

\* buy_trade / sell_trade adding a row to the slot instead of replacing it.
open_trade_try_additive(m, type) ==
    LET entry_price == get_close_price(m, m.current_date)
    IN IF entry_price.exc # "none"
       THEN [m |-> m, exc |-> entry_price.exc]
       ELSE IF entry_price.val = None
       THEN [m |-> m, exc |-> "ValueError"]
       ELSE [m |-> [m EXCEPT !.current_trade =
                       Append(m.current_trade,
                              [type |-> type, entry_date |-> m.current_date,
                               entry_price |-> entry_price.val, status |-> "open"])],
             exc |-> "none"]

\* buy_trade / sell_trade overwriting the slot without closing first.
open_trade_try_overwrite(m, type) ==
    LET entry_price == get_close_price(m, m.current_date)
    IN IF entry_price.exc # "none"
       THEN [m |-> m, exc |-> entry_price.exc]
       ELSE IF entry_price.val = None
       THEN [m |-> m, exc |-> "ValueError"]
       ELSE [m |-> [m EXCEPT !.current_trade =
                       <<[type |-> type, entry_date |-> m.current_date,
                          entry_price |-> entry_price.val, status |-> "open"]>>],
             exc |-> "none"]

\* buy_trade / sell_trade, the body of their try block (the two differ only
\* in the 'type' written).
open_trade_try(m, type) ==
    LET m1 == IF m.current_trade # EmptyTrade THEN close_trade(m).m ELSE m
        entry_price == get_close_price(m1, m1.current_date)
    IN IF entry_price.exc # "none"
       THEN [m |-> m1, exc |-> entry_price.exc]
       ELSE IF entry_price.val = None
       THEN [m |-> m1, exc |-> "ValueError"]
       ELSE [m |-> [m1 EXCEPT !.current_trade =
                       <<[type |-> type, entry_date |-> m1.current_date,
                          entry_price |-> entry_price.val, status |-> "open"]>>],
             exc |-> "none"]

buy_trade(m) == [m |-> open_trade_try(m, "buy").m, exc |-> "none"]

sell_trade(m) == [m |-> open_trade_try(m, "sell").m, exc |-> "none"]

set_current_date(m, date) == [m |-> [m EXCEPT !.current_date = date], exc |-> "none"]

\* export_to_excel without the test for an empty ledger.
export_to_excel_try_unconditional(m, written) ==
    IF written
    THEN [m |-> m, exc |-> "none", effect |-> "file"]
    ELSE [m |-> m, exc |-> "IOError", effect |-> "none"]

\* export_to_excel, the body of its try block: with an empty ledger it prints
\* and returns; otherwise to_excel writes trades_history.xlsx, or raises when
\* the file cannot be written.  The model object is not assigned.
export_to_excel_try(m, written) ==
    IF m.trades = <<>>
    THEN [m |-> m, exc |-> "none", effect |-> "message"]
    ELSE IF written
    THEN [m |-> m, exc |-> "none", effect |-> "file"]
    ELSE [m |-> m, exc |-> "IOError", effect |-> "none"]

\* export_to_excel: try: ... except Exception: print(...)
export_to_excel(m, written) == [export_to_excel_try(m, written) EXCEPT !.exc = "none"]

\* Line 112 left out: the last row keeps the signal the caller supplied.
with_signal_kept(df, current_signal) == df

\* auto_trade: df.loc[len(df) - 1, 'Signal'] = current_signal
with_signal(df, current_signal) == [df EXCEPT ![Len(df)].Signal = current_signal]

\* auto_trade: the entry date of the live trade, or None.
latest_trade_date(m) ==
    IF m.current_trade # EmptyTrade
    THEN m.current_trade[Len(m.current_trade)].entry_date
    ELSE None

\* valid_signals without the test for 0.0 or 2.0.
valid_signals_with_neutral(m, df) ==
    LET window_date == df[Len(df)].Time
        latest == latest_trade_date(m)
    IN {i \in 1..Len(df) :
          /\ (latest # None => df[i].Time > latest)
          /\ df[i].Time <= window_date}

\* auto_trade: the index labels of valid_signals, the rows later than the
\* live trade's entry, not later than the window's last bar, whose signal is
\* 0.0 or 2.0.
valid_signals(m, df) ==
    LET window_date == df[Len(df)].Time
        latest == latest_trade_date(m)
    IN {i \in 1..Len(df) :
          /\ (latest # None => df[i].Time > latest)
          /\ df[i].Time <= window_date
          /\ df[i].Signal \in {Buy, Sell}}

\* recent_signal_condition that accepts every signal.
recent_signal_condition_always(df, signal_index, furthest_index) == TRUE

\* auto_trade: recent_signal_condition
recent_signal_condition(df, signal_index, furthest_index) ==
    Len(df) - signal_index <= furthest_index

\* The decision without the same-side early return.
trade_on_signal_reenter(m, new_signal, recent) ==
    IF new_signal = Neutral
    THEN m
    ELSE IF m.current_trade # EmptyTrade
    THEN LET m2 == close_trade(m).m
         IN IF new_signal = Buy /\ recent THEN buy_trade(m2).m
            ELSE IF new_signal = Sell /\ recent THEN sell_trade(m2).m
            ELSE m2
    ELSE IF new_signal = Buy /\ recent THEN buy_trade(m).m
    ELSE IF new_signal = Sell /\ recent THEN sell_trade(m).m
    ELSE m

\* The decision that closes on an opposite signal but does not open.
trade_on_signal_close_only(m, new_signal, recent) ==
    IF new_signal = Neutral
    THEN m
    ELSE IF m.current_trade # EmptyTrade
    THEN LET current_trade_type == m.current_trade[Len(m.current_trade)].type
         IN IF \/ (new_signal = Buy /\ current_trade_type = "buy")
               \/ (new_signal = Sell /\ current_trade_type = "sell")
            THEN m
            ELSE close_trade(m).m
    ELSE IF new_signal = Buy /\ recent THEN buy_trade(m).m
    ELSE IF new_signal = Sell /\ recent THEN sell_trade(m).m
    ELSE m

\* auto_trade: the decision taken on new_signal (lines 126-142).
trade_on_signal(m, new_signal, recent) ==
    IF new_signal = Neutral
    THEN m
    ELSE IF m.current_trade # EmptyTrade
    THEN LET current_trade_type == m.current_trade[Len(m.current_trade)].type
             m2 == close_trade(m).m
         IN IF \/ (new_signal = Buy /\ current_trade_type = "buy")
               \/ (new_signal = Sell /\ current_trade_type = "sell")
            THEN m
            ELSE IF new_signal = Buy /\ recent THEN buy_trade(m2).m
            ELSE IF new_signal = Sell /\ recent THEN sell_trade(m2).m
            ELSE m2
    ELSE IF new_signal = Buy /\ recent THEN buy_trade(m).m
    ELSE IF new_signal = Sell /\ recent THEN sell_trade(m).m
    ELSE m

\* What auto_trade selected: whether valid_signals was non-empty, and then
\* new_signal, index_difference and the furthest_index it was called with.
NoSelection == [selected |-> FALSE, new_signal |-> Neutral,
                index_difference |-> 0, furthest_index |-> 0]

\* The result of auto_trade: the model, the exception that escaped, what was
\* selected, and the caller's frame as the call leaves it (line 112 writes
\* into it).
AutoResult(m, exc, sel, df) == [m |-> m, exc |-> exc, sel |-> sel, df |-> df]

\* ------------------------------------------------------------ the inputs
Signals == {Buy, Neutral, Sell}

\* A window: rows of the price file in ascending time order, each with the
\* signal value the caller's column holds.
Window(ts, sig) ==
    [i \in 1..Len(ts) |-> [Time |-> ts[i], Close |-> File[ts[i]], Signal |-> sig[i]]]

Ascending(ts) == \A i \in 1..Len(ts) - 1 : ts[i] < ts[i + 1]

WindowsUpTo(len) ==
    UNION { { Window(ts, sig) : <<ts, sig>> \in
                {t \in [1..n -> Times] : Ascending(t)} \X [1..n -> Signals] }
            : n \in 0..len }

Windows == WindowsUpTo(MaxLen)

\* A window whose frame has no Close column.
WindowNoClose(ts) == [i \in 1..Len(ts) |-> [Time |-> ts[i], Signal |-> Neutral]]

WindowsNoClose ==
    UNION { { WindowNoClose(ts) : ts \in {t \in [1..n -> Times] : Ascending(t)} }
            : n \in 1..MaxLenRecorded }

WindowsRecorded == WindowsUpTo(MaxLenRecorded) \cup WindowsNoClose

FurthestChoices == {0, DefaultFurthestIndex}

\* The current_datetime handed to auto_trade: plot_view.py calls it only when
\* the frame has a bar at that time, the date shown before the step, with
\* the frame reloaded up to the date after it: the last bar or the one
\* before it.
DatetimeChoices(df) ==
    IF Len(df) = 0 THEN Times
    ELSE {df[i].Time : i \in {j \in 1..Len(df) : j >= Len(df) - 1}}

\* find_peaks_and_valleys(df, ..., rolling=True) for the frames and the
\* detector arguments the state machines hand to auto_trade, computed once.
RollingSignal ==
    [df \in WindowsRecorded |->
        find_peaks_and_valleys(df, DefaultDistance, PromNum, PromDen, TRUE)]

\* auto_trade line 111: the detector's answer for the last bar, read from
\* RollingSignal where it is tabulated.
rolling_signal(df, distance, pnum, pden) ==
    IF /\ <<distance, pnum, pden>> = <<DefaultDistance, PromNum, PromDen>>
       /\ df \in DOMAIN RollingSignal
    THEN RollingSignal[df]
    ELSE find_peaks_and_valleys(df, distance, pnum, pden, TRUE)

\* auto_trade from line 112 on, given the detector's answer for the last bar.
auto_trade_signalled(m1, df, current_signal, furthest_index) ==
    LET df1 == with_signal(df, current_signal.val)
        valid == valid_signals(m1, df1)
        signal_index == Max(valid)
        new_signal == df1[signal_index].Signal
    IN IF current_signal.exc # "none"
       THEN AutoResult(m1, current_signal.exc, NoSelection, df)
       ELSE IF valid = {} THEN AutoResult(m1, "none", NoSelection, df1)
       ELSE AutoResult(trade_on_signal(m1, new_signal,
                           recent_signal_condition(df1, signal_index, furthest_index)),
                       "none",
                       [selected |-> TRUE, new_signal |-> new_signal,
                        index_difference |-> Len(df1) - signal_index,
                        furthest_index |-> furthest_index],
                       df1)

\* auto_trade, the body of its try block.  The detector runs once per call.
auto_trade_try(m, df, furthest_index, distance, pnum, pden) ==
    LET m1 == set_data(m, df)
    IN IF Len(df) = 0 THEN AutoResult(m1, "none", NoSelection, df)
       ELSE CHOOSE r \in
              { auto_trade_signalled(m1, df, current_signal, furthest_index) :
                  current_signal \in
                    {rolling_signal(df, distance, pnum, pden)} } : TRUE

\* auto_trade without its except clause.
auto_trade_unguarded(m, df, furthest_index, distance, pnum, pden) ==
    auto_trade_try(m, df, furthest_index, distance, pnum, pden)

auto_trade(m, df, furthest_index, distance, pnum, pden) ==
    [auto_trade_try(m, df, furthest_index, distance, pnum, pden) EXCEPT !.exc = "none"]

\* ------------------------------------------------------- the state machine
\* `last` records the operation that produced the state: its name, the live
\* trade and the ledger it started from, the exception that escaped it, and
\* for auto_trade the signal it selected, and for export_to_excel what it
\* put out ("message", "file" or nothing).  `call` records the arguments of
\* the call that produced the state, where a specification keeps them.
NoCall == [op |-> "none"]

\* `app` is the application around the engine (main, the server thread, the
\* control panel), where a specification runs it.
NoApp == [main |-> "none"]

Init ==
    /\ trades = <<>>
    /\ current_trade = EmptyTrade
    /\ current_date = None
    /\ data = <<>>
    /\ last = [op |-> "init", pre_trade |-> EmptyTrade, pre_trades |-> <<>>,
               exc |-> "none", sel |-> NoSelection, effect |-> "none"]
    /\ call = NoCall
    /\ app = NoApp

\* The result r of an operation becomes the next state; an operation that
\* would grow the ledger beyond MaxTrades entries is not taken.
Commit(name, r, sel) ==
    /\ Len(r.m.trades) <= MaxTrades
    /\ trades' = r.m.trades
    /\ current_trade' = r.m.current_trade
    /\ current_date' = r.m.current_date
    /\ data' = r.m.data
    /\ last' = [op |-> name, pre_trade |-> current_trade, pre_trades |-> trades,
                exc |-> r.exc, sel |-> sel,
                effect |-> IF "effect" \in DOMAIN r THEN r.effect ELSE "none"]
    /\ app' = app

\* The replay driver advances the clock (spec section 6: current_time is
\* monotonically non-decreasing): the dates it sets never decrease.
SetCurrentDate ==
    \E date \in {t \in Times : t >= current_date} :
        /\ Commit("set_current_date", set_current_date(Model, date), NoSelection)
        /\ call' = NoCall

BuyTrade ==
    \E r \in {buy_trade(Model)} :
        Commit("buy_trade", r, NoSelection) /\ call' = NoCall

SellTrade ==
    \E r \in {sell_trade(Model)} :
        Commit("sell_trade", r, NoSelection) /\ call' = NoCall

CloseTrade ==
    \E r \in {close_trade(Model)} :
        Commit("close_trade", r, NoSelection) /\ call' = NoCall

ExportToExcel ==
    \E r \in {export_to_excel(Model, written) : written \in BOOLEAN} :
        Commit("export_to_excel", r, NoSelection) /\ call' = NoCall

AutoTrade ==
    \E df \in Windows, furthest_index \in FurthestChoices :
        \E r \in {auto_trade(Model, df, furthest_index, DefaultDistance, PromNum, PromDen)} :
            Commit("auto_trade", r, r.sel) /\ call' = NoCall

Next ==
    \/ SetCurrentDate
    \/ BuyTrade
    \/ SellTrade
    \/ CloseTrade
    \/ AutoTrade
    \/ ExportToExcel

Spec == Init /\ [][Next]_vars

\* ------------------------------------- the state machine, calls recorded
\* auto_trade with its arguments recorded: the frame as handed in and as
\* left behind, current_datetime and furthest_index.
AutoTradeRecorded ==
    \E df \in WindowsRecorded, furthest_index \in FurthestChoices :
        \E r \in {auto_trade(Model, df, furthest_index,
                              DefaultDistance, PromNum, PromDen)} :
            \E current_datetime \in DatetimeChoices(df) :
                /\ Commit("auto_trade", r, r.sel)
                /\ call' = [op |-> "auto_trade", df |-> df, df_after |-> r.df,
                            current_datetime |-> current_datetime,
                            furthest_index |-> furthest_index]

\* The sessions explored with recorded calls keep at most MaxTradesRecorded
\* ledger entries.
NextRecorded ==
    /\ \/ SetCurrentDate
       \/ BuyTrade
       \/ SellTrade
       \/ CloseTrade
       \/ AutoTradeRecorded
       \/ ExportToExcel
    /\ Len(trades') <= MaxTradesRecorded

SpecRecorded == Init /\ [][NextRecorded]_vars

\* ------------------------------------------------------ claim vocabulary
TradeOps == {"buy_trade", "sell_trade", "close_trade", "auto_trade"}

\* A bar of the engine's data carries the engine's current date.
HasPrice ==
    /\ data # <<>>
    /\ HasClose(data[1])
    /\ \E i \in 1..Len(data[1]) : data[1][i].Time = current_date

Newest == trades[Len(trades)]

PreLen == Len(last.pre_trades)

IsPrefix(s, t) == Len(s) <= Len(t) /\ SubSeq(t, 1, Len(s)) = s

\* The last operation appended exactly one entry, the closed copy of the
\* trade that was live before it.
ClosedPrevious ==
    /\ Len(trades) = PreLen + 1
    /\ SubSeq(trades, 1, PreLen) = last.pre_trades
    /\ Len(last.pre_trade) = 1
    /\ Newest.type = last.pre_trade[1].type
    /\ Newest.entry_date = last.pre_trade[1].entry_date
    /\ Newest.entry_price = last.pre_trade[1].entry_price
    /\ Newest.status = "closed"

SideOf(signal) == IF signal = Buy THEN "buy" ELSE "sell"

Stale(sel) == sel.selected /\ sel.index_difference > sel.furthest_index

Recent(sel) == sel.selected /\ sel.index_difference <= sel.furthest_index

\* ------------------------------------------------------------------ C1
\* C1: after any sequence of operations the live-position slot holds zero
\* or one row, and so at most one position has status open.
C1_AtMostOneOpen ==
    /\ Len(current_trade) <= 1
    /\ Cardinality({i \in 1..Len(current_trade) : current_trade[i].status = "open"}) <= 1

\* An open (manual or automatic) was performed over an existing position and
\* one position is live.
C1_Witness ==
    /\ last.op \in {"buy_trade", "sell_trade", "auto_trade"}
    /\ last.pre_trade # EmptyTrade
    /\ Len(trades) = PreLen + 1
    /\ Len(current_trade) = 1
    /\ current_trade[1].status = "open"

\* ------------------------------------------------------------------ C2
\* C2: every operation leaves the ledger it started from as a prefix of the
\* ledger it ends with.
C2_LedgerAppendOnly == IsPrefix(last.pre_trades, trades)

\* An entry was appended to a ledger that already held a different entry.
C2_Witness ==
    /\ PreLen >= 1
    /\ Len(trades) = PreLen + 1
    /\ trades[1] # trades[2]

\* ------------------------------------------------------------------ C3
\* C3: close_trade with no open position changes neither the ledger nor the
\* slot, and the second of two consecutive close_trade calls changes nothing.
C3_CloseNoOp ==
    [][(last'.op = "close_trade" /\ (current_trade = EmptyTrade \/ last.op = "close_trade"))
          => (trades' = trades /\ current_trade' = current_trade)]_vars

\* close_trade ran right after a close_trade that had closed a position.
C3_Witness ==
    /\ last.op = "close_trade"
    /\ last.pre_trade = EmptyTrade
    /\ current_trade = EmptyTrade
    /\ Len(trades) >= 1
    /\ Newest.exit_date = current_date

\* ------------------------------------------------------------------ C4
\* C4: every ledger entry has profit = exit_price - entry_price when it is a
\* buy and entry_price - exit_price when it is a sell; the entry an operation
\* appends exits at the engine's current date, at the close of that date's
\* bar, and enters at the price recorded in the position it closes.
C4_ProfitCorrect ==
    /\ \A i \in 1..Len(trades) :
          /\ trades[i].type = "buy" => trades[i].profit = trades[i].exit_price - trades[i].entry_price
          /\ trades[i].type = "sell" => trades[i].profit = trades[i].entry_price - trades[i].exit_price
          /\ trades[i].exit_price = File[trades[i].exit_date]
    /\ (last.op \in TradeOps /\ Len(trades) > PreLen) =>
          /\ ClosedPrevious
          /\ Newest.exit_date = current_date
          /\ HasPrice

\* The ledger holds a buy closed at a gain and a sell closed at a gain.
C4_Witness ==
    /\ \E i \in 1..Len(trades) : trades[i].type = "buy" /\ trades[i].profit > 0
    /\ \E i \in 1..Len(trades) : trades[i].type = "sell" /\ trades[i].profit > 0

\* ------------------------------------------------------------------ C5
\* C5: buy_trade / sell_trade over an open position, with a price for the
\* current date, appends exactly one entry (the closed previous position,
\* exiting at the new position's entry date and price) and leaves exactly one
\* live position, of the requested side.
C5_OpenClosesFirst ==
    (last.op \in {"buy_trade", "sell_trade"} /\ last.pre_trade # EmptyTrade /\ HasPrice) =>
        /\ ClosedPrevious
        /\ Len(current_trade) = 1
        /\ current_trade[1].status = "open"
        /\ current_trade[1].type = (IF last.op = "buy_trade" THEN "buy" ELSE "sell")
        /\ current_trade[1].entry_date = current_date
        /\ Newest.exit_date = current_trade[1].entry_date
        /\ Newest.exit_price = current_trade[1].entry_price

\* sell_trade ran over an open buy.
C5_Witness ==
    /\ last.op = "sell_trade"
    /\ last.pre_trade # EmptyTrade
    /\ last.pre_trade[1].type = "buy"
    /\ HasPrice
    /\ Len(trades) = PreLen + 1

\* ------------------------------------------------------------------ C6
\* C6: when no bar of the engine's data carries the current date (or no data
\* is loaded), buy_trade, sell_trade and close_trade let no exception escape
\* and leave the live position and the ledger as they were.
C6_MissingPriceAborts ==
    (last.op \in {"buy_trade", "sell_trade", "close_trade"} /\ ~HasPrice)
        => (trades = last.pre_trades /\ current_trade = last.pre_trade /\ last.exc = "none")

\* An open was attempted over an existing position with no bar at the
\* current date, and the position is still live.
C6_Witness ==
    /\ last.op \in {"buy_trade", "sell_trade"}
    /\ last.pre_trade # EmptyTrade
    /\ data # <<>>
    /\ ~HasPrice
    /\ current_trade = last.pre_trade

\* ------------------------------------------------------------------ C7
\* C7 as stated: whenever auto_trade selects a recent signal opposite to the
\* open position, that call appends the closed position (profit by its side)
\* and opens the opposite position at the appended entry's exit price.
Flipped ==
    /\ ClosedPrevious
    /\ Newest.profit = (IF Newest.type = "buy"
                        THEN Newest.exit_price - Newest.entry_price
                        ELSE Newest.entry_price - Newest.exit_price)
    /\ Len(current_trade) = 1
    /\ current_trade[1].status = "open"
    /\ current_trade[1].type = SideOf(last.sel.new_signal)
    /\ current_trade[1].type # Newest.type
    /\ current_trade[1].entry_price = Newest.exit_price
    /\ current_trade[1].entry_date = Newest.exit_date

OppositeSelected ==
    /\ last.op = "auto_trade"
    /\ Recent(last.sel)
    /\ last.pre_trade # EmptyTrade
    /\ last.pre_trade[1].type # SideOf(last.sel.new_signal)

C7_FlipAlways == OppositeSelected => Flipped

\* C7 amended: the flip happens whenever, in addition, the window handed to
\* auto_trade has a bar at the engine's current date; without such a bar the
\* call leaves the open position and the ledger as they were.
C7_FlipWhenPriced ==
    OppositeSelected =>
        IF HasPrice
        THEN Flipped
        ELSE current_trade = last.pre_trade /\ trades = last.pre_trades

\* auto_trade flipped a buy into a sell.
C7_Witness ==
    /\ OppositeSelected
    /\ HasPrice
    /\ last.pre_trade[1].type = "buy"
    /\ Flipped

\* ------------------------------------------------------------------ C8
\* C8: when the signal auto_trade selects is on the side of the open
\* position, the call changes neither the live position nor the ledger.
C8_NoReentry ==
    (/\ last.op = "auto_trade"
     /\ last.sel.selected
     /\ last.pre_trade # EmptyTrade
     /\ last.pre_trade[1].type = SideOf(last.sel.new_signal))
        => (current_trade = last.pre_trade /\ trades = last.pre_trades)

\* auto_trade selected a recent same-side signal over an open position whose
\* entry date is not the current date, with a bar at the current date.
C8_Witness ==
    /\ last.op = "auto_trade"
    /\ Recent(last.sel)
    /\ last.pre_trade # EmptyTrade
    /\ last.pre_trade[1].type = SideOf(last.sel.new_signal)
    /\ last.pre_trade[1].entry_date # current_date
    /\ HasPrice
    /\ current_trade = last.pre_trade

\* ------------------------------------------------------------------ C9
\* C9: an auto_trade call whose selected signal is stale creates no
\* position: the slot afterwards is empty or holds the position it held.
C9_StaleNeverOpens ==
    (last.op = "auto_trade" /\ Stale(last.sel))
        => (current_trade = EmptyTrade \/ current_trade = last.pre_trade)

\* auto_trade selected a stale signal with no position open, a bar at the
\* current date, and stayed flat.
C9_Witness ==
    /\ last.op = "auto_trade"
    /\ Stale(last.sel)
    /\ last.pre_trade = EmptyTrade
    /\ HasPrice
    /\ current_trade = EmptyTrade

\* ----------------------------------------------------------------- C10
\* C10: an auto_trade call whose selected signal is stale changes neither
\* the live position nor the ledger.
C10_StaleNoAction ==
    (last.op = "auto_trade" /\ Stale(last.sel))
        => (current_trade = last.pre_trade /\ trades = last.pre_trades)

\* ----------------------------------------- the detector, called directly
\* A frame with the given closes, one bar per time step.
DetectWindow(closes) == [i \in 1..Len(closes) |-> [Time |-> i, Close |-> closes[i]]]

DetectWindows ==
    UNION { {DetectWindow(closes) : closes \in [1..n -> 1..MaxClose]}
            : n \in 0..MaxDetectLen }

DistanceChoices == (1..MaxDistance) \cup {DefaultDistance}

\* min_prominence as numerator and denominator: 0, the default 0.1, 0.5, 1.
ProminenceChoices == {<<0, 1>>, <<PromNum, PromDen>>, <<1, 2>>, <<1, 1>>}

\* A call of find_peaks_and_valleys about to be made, with its arguments.
InitDetect ==
    /\ trades = <<>>
    /\ current_trade = EmptyTrade
    /\ current_date = None
    /\ data = <<>>
    /\ last = [op |-> "init", pre_trade |-> EmptyTrade, pre_trades |-> <<>>,
               exc |-> "none", sel |-> NoSelection, effect |-> "none"]
    /\ call \in [op : {"detect_pending"}, df_window : DetectWindows,
                  distance : DistanceChoices, prominence : ProminenceChoices,
                  rolling : BOOLEAN]
    /\ app = NoApp

\* The call returns; the caller's frame is the argument the function copied
\* at line 78 and never wrote to.
Detect ==
    /\ call.op = "detect_pending"
    /\ \E r \in {find_peaks_and_valleys(call.df_window, call.distance,
                       call.prominence[1], call.prominence[2], call.rolling)} :
          call' = [op |-> "detect", df_window |-> call.df_window,
                   distance |-> call.distance, prominence |-> call.prominence,
                   rolling |-> call.rolling, val |-> r.val, exc |-> r.exc]
    /\ UNCHANGED <<trades, current_trade, current_date, data, last, app>>

NextDetect == Detect

SpecDetect == InitDetect /\ [][NextDetect]_vars

\* ------------------------------------------ claims about the detector
\* The call returned the whole signal column.
Detected == call.op = "detect" /\ call.exc = "none" /\ ~call.rolling

DetectCloses == [i \in 1..Len(call.df_window) |-> call.df_window[i].Close]

\* An interior bar no lower than its neighbours whose level is left by a
\* strictly lower close on both sides.
IsLocalMaximum(x, i) ==
    /\ 1 < i /\ i < Len(x)
    /\ x[i - 1] <= x[i] /\ x[i + 1] <= x[i]
    /\ \E l \in 1..i - 1 : x[l] < x[i] /\ \A k \in l + 1..i : x[k] = x[i]
    /\ \E r \in i + 1..Len(x) : x[r] < x[i] /\ \A k \in i..r - 1 : x[k] = x[i]

IsLocalMinimum(x, i) ==
    /\ 1 < i /\ i < Len(x)
    /\ x[i - 1] >= x[i] /\ x[i + 1] >= x[i]
    /\ \E l \in 1..i - 1 : x[l] > x[i] /\ \A k \in l + 1..i : x[k] = x[i]
    /\ \E r \in i + 1..Len(x) : x[r] > x[i] /\ \A k \in i..r - 1 : x[k] = x[i]

\* The scenario of the claim: closes 1, 1, 1, 2, 1, 1 with min_distance 1 and
\* min_prominence 0.1.
SpikeScenario ==
    /\ Detected
    /\ DetectCloses = <<1, 1, 1, 2, 1, 1>>
    /\ call.distance = 1
    /\ call.prominence = <<PromNum, PromDen>>

\* C16: the detector marks Sell only at local maxima of the closes and Buy
\* only at local minima; on the closes 1, 1, 1, 2, 1, 1 with min_distance 1
\* and min_prominence 0.1 the fourth bar (index 3 from zero) is the only Sell
\* and no bar is Buy.
C16_ExtremaOnly ==
    /\ Detected =>
          \A i \in 1..Len(call.val) :
              /\ call.val[i] = Sell => IsLocalMaximum(DetectCloses, i)
              /\ call.val[i] = Buy => IsLocalMinimum(DetectCloses, i)
    /\ SpikeScenario =>
          call.val = <<Neutral, Neutral, Neutral, Sell, Neutral, Neutral>>

\* The detector answered for the spike scenario.
C16_Witness == SpikeScenario /\ \E i \in 1..Len(call.val) : call.val[i] = Sell

\* The answer marks no bar: the Neutral value, or a column of Neutral.
AllNeutral ==
    IF call.rolling THEN call.val = Neutral
    ELSE call.val = [i \in 1..Len(call.df_window) |-> Neutral]

\* C17: on a frame with no bars the detector raises nothing and returns an
\* empty or Neutral answer.
C17_EmptyNoError ==
    (call.op = "detect" /\ Len(call.df_window) = 0) =>
        (call.exc = "none" /\ AllNeutral)

Constant(x) == \A i, j \in 1..Len(x) : x[i] = x[j]

\* C18: on a frame of one bar, or of equal closes, the detector raises
\* nothing and marks every bar Neutral, for every min_distance >= 1 and every
\* min_prominence.
C18_FlatAllNeutral ==
    (/\ call.op = "detect"
     /\ Len(call.df_window) >= 1
     /\ Len(call.df_window) = 1 \/ Constant(DetectCloses)) =>
        (call.exc = "none" /\ AllNeutral)

\* The detector answered for several equal closes with min_prominence 0.
C18_Witness ==
    /\ call.op = "detect"
    /\ Len(call.df_window) > 1 /\ Constant(DetectCloses)
    /\ call.prominence[1] = 0
    /\ ~call.rolling

\* The peaks and the valleys the call found (lines 90 and 93).
PeakIndices ==
    find_peaks(DetectCloses, ScaleOf(DetectCloses), call.distance,
               call.prominence[1], call.prominence[2])

ValleyIndices ==
    find_peaks(Negated(DetectCloses), ScaleOf(DetectCloses), call.distance,
               call.prominence[1], call.prominence[2])

\* The column the rule gives when index i is added to both sets.
MarkedInBoth(i) ==
    mark_signal(Len(call.df_window), PeakIndices \cup {i}, ValleyIndices \cup {i})

\* C25 as amended: no index is both a peak and a valley, so Buy and Sell
\* never coincide; the rule writes the valleys last, so an index put in both
\* sets would come out Buy.
C25_DisjointBuyWins ==
    Detected =>
        /\ PeakIndices \cap ValleyIndices = {}
        /\ \A i \in 1..Len(call.val) :
               /\ call.val[i] = Sell <=> i \in PeakIndices
               /\ call.val[i] = Buy <=> i \in ValleyIndices
               /\ MarkedInBoth(i)[i] = Buy

\* C25 as written: no index is both a peak and a valley, and an index put in
\* both sets would come out Sell.
C25_DisjointSellWins ==
    Detected =>
        /\ PeakIndices \cap ValleyIndices = {}
        /\ \A i \in 1..Len(call.val) : MarkedInBoth(i)[i] = Sell

\* The call marked a Sell and a Buy.
C25_Witness ==
    /\ Detected
    /\ PeakIndices # {} /\ ValleyIndices # {}
    /\ \E i, j \in 1..Len(call.val) : call.val[i] = Sell /\ call.val[j] = Buy

\* The indices of the answer that carry the given mark.
Marked(signal) == {i \in 1..Len(call.val) : call.val[i] = signal}

Spaced(indices) ==
    \A i, j \in indices : i < j => j - i >= call.distance

\* C26: any two bars marked Sell are at least min_distance apart, and so are
\* any two bars marked Buy.
C26_MinimumSpacing ==
    Detected => Spaced(Marked(Sell)) /\ Spaced(Marked(Buy))

\* With a min_distance above 1 the call marked two bars Sell, or dropped a
\* local maximum that stood too close to a higher one and marked the other.
C26_Witness ==
    /\ Detected
    /\ call.distance > 1
    /\ Marked(Sell) # {}
    /\ \/ Cardinality(Marked(Sell)) >= 2
       \/ Cardinality(local_maxima_1d(DetectCloses)) > Cardinality(Marked(Sell))

\* --------------------------------------- claims about recorded calls
\* The state was produced by an auto_trade call whose arguments are recorded.
AutoCalled == last.op = "auto_trade" /\ call.op = "auto_trade"

\* The recorded frame has bars and a Close column.
Usable == Len(call.df) > 0 /\ HasClose(call.df)

Untouched == current_trade = last.pre_trade /\ trades = last.pre_trades

\* The bars of the recorded frame, as the call left it, later than the entry
\* of the trade that was live when the call began.
Candidates ==
    {i \in 1..Len(call.df_after) :
        last.pre_trade # EmptyTrade =>
            call.df_after[i].Time > last.pre_trade[1].entry_date}

Signalled == {i \in Candidates : call.df_after[i].Signal # Neutral}

\* A position of the given signal's side is live, opened by the last call at
\* the engine's date.
OpenedOn(signal) ==
    /\ Len(current_trade) = 1
    /\ current_trade[1].type = SideOf(signal)
    /\ current_trade[1].status = "open"
    /\ current_trade[1].entry_date = current_date

\* C11: auto_trade acts on the most recent candidate bar whose signal is Buy
\* or Sell, whatever Neutral bars follow it: that bar's signal and its
\* distance from the last bar are what the call selects, and from a flat
\* engine with a recent, priced signal it opens that signal's side.  With no
\* Buy or Sell among the candidates the position and the ledger are unchanged.
C11_MostRecentSignalled ==
    (AutoCalled /\ Usable) =>
        IF Signalled = {}
        THEN ~last.sel.selected /\ Untouched
        ELSE /\ last.sel.selected
             /\ last.sel.new_signal = call.df_after[Max(Signalled)].Signal
             /\ last.sel.index_difference = Len(call.df_after) - Max(Signalled)
             /\ (last.pre_trade = EmptyTrade /\ Recent(last.sel) /\ HasPrice)
                    => OpenedOn(call.df_after[Max(Signalled)].Signal) /\ trades = last.pre_trades

\* A flat engine opened on the later of two opposite signals, with a Neutral
\* bar after it.
C11_Witness ==
    /\ AutoCalled /\ Usable
    /\ Cardinality(Signalled) = 2
    /\ \E i \in Signalled : call.df_after[i].Signal # call.df_after[Max(Signalled)].Signal
    /\ \E i \in Candidates : i > Max(Signalled) /\ call.df_after[i].Signal = Neutral
    /\ last.pre_trade = EmptyTrade
    /\ OpenedOn(call.df_after[Max(Signalled)].Signal)
\* The entry time of the most recent trade ever opened before the call: the
\* live trade's, else the newest ledger entry's (trades are closed in the
\* order they were opened), else None.
LastOpenedEntry ==
    IF last.pre_trade # EmptyTrade THEN last.pre_trade[1].entry_date
    ELSE IF last.pre_trades # <<>>
    THEN last.pre_trades[Len(last.pre_trades)].entry_date
    ELSE None

\* The time of the bar whose signal the call selected.
SelectedTime == call.df_after[Len(call.df_after) - last.sel.index_difference].Time

\* C12: auto_trade only considers signals on bars strictly later than the
\* entry time of the most recent trade ever opened, open or closed; after a
\* trade has been closed and with no live position, it does not open on a
\* signal at or before that closed trade's entry time.
C12_BoundaryIsLastOpened ==
    (AutoCalled /\ Usable /\ last.sel.selected /\ LastOpenedEntry # None) =>
        /\ SelectedTime > LastOpenedEntry
        /\ (last.pre_trade = EmptyTrade /\ current_trade # EmptyTrade)
              => SelectedTime > last.pre_trades[Len(last.pre_trades)].entry_date
\* The result of calling auto_trade again on the state the recorded call
\* produced, with the given frame and the recorded arguments.
Again(df) ==
    auto_trade(Model, df, call.furthest_index, DefaultDistance, PromNum, PromDen)

\* The frames that are the same window as the recorded call's: the object the
\* call wrote into, and an equal copy of what it was handed.
SameFrames == {call.df, call.df_after}

\* C13: a second auto_trade with the same frame and arguments, right after
\* the first and at the same current date, leaves the position and the
\* ledger as the first call left them.
C13_Idempotent ==
    AutoCalled =>
        \A df \in SameFrames :
            \E r \in {Again(df)} :
                r.m.current_trade = current_trade /\ r.m.trades = trades

\* The first call opened or closed a trade, and the second call selects a
\* signal again.
C13_Witness ==
    /\ AutoCalled /\ Usable
    /\ ~Untouched
    /\ Again(call.df_after).sel.selected
\* The recorded call opened the position that is live.
OpenedByCall ==
    /\ AutoCalled
    /\ current_trade # EmptyTrade
    /\ current_trade # last.pre_trade

\* The closes of the recorded frame's bars at the given time.
ClosesAt(time) ==
    {call.df[i].Close : i \in {j \in 1..Len(call.df) : call.df[j].Time = time}}

\* C14: a position opened by auto_trade has as entry time the current time
\* supplied to that call, and as entry price the close of the frame's bar at
\* that time.
C14_EntryAtSuppliedTime ==
    OpenedByCall =>
        /\ current_trade[1].entry_date = call.current_datetime
        /\ current_trade[1].entry_price \in ClosesAt(call.current_datetime)
\* The engine as the recorded call found it.  The call replaces the data
\* before it reads them, so the data it found do not matter.
PreModel == [trades |-> last.pre_trades, current_trade |-> last.pre_trade,
             current_date |-> current_date, data |-> data]

\* The recorded frame with its Signal column replaced.
Resignalled(sig) == [i \in 1..Len(call.df) |-> [call.df[i] EXCEPT !.Signal = sig[i]]]

\* From the engine state the recorded call started in, the call with the
\* given frame ends with the position and the ledger the recorded call
\* ended with.
SameOutcome(df) ==
    \E r \in {auto_trade(PreModel, df, call.furthest_index,
                          DefaultDistance, PromNum, PromDen)} :
        r.m.current_trade = current_trade /\ r.m.trades = trades

\* C15 as stated: the outcome of auto_trade depends only on the frame's Time
\* and Close, the detector arguments and the engine state; frames equal in
\* Time and Close give the same position and ledger whatever their Signal
\* columns hold.
C15_SignalColumnIgnored ==
    (AutoCalled /\ Usable) =>
        \A sig \in [1..Len(call.df) -> Signals] : SameOutcome(Resignalled(sig))

\* C15 amended: frames equal in Time and Close and in the Signal of every
\* bar but the last give the same position and ledger, whatever Signal the
\* last bar carried.
C15_LastSignalIgnored ==
    (AutoCalled /\ Usable) =>
        \A sig \in [1..Len(call.df) -> Signals] :
            (\A i \in 1..Len(call.df) - 1 : sig[i] = call.df[i].Signal)
                => SameOutcome(Resignalled(sig))

\* The call opened a position on a frame whose last bar carried Buy or Sell
\* when it was handed in.
C15_Witness ==
    /\ OpenedByCall /\ Usable
    /\ call.df[Len(call.df)].Signal # Neutral
    /\ call.df_after # call.df
\* C20: on a frame without a Close column, or without bars, auto_trade lets
\* no exception out and leaves the position and the ledger unchanged.
C20_UnusableNoAction ==
    (AutoCalled /\ ~Usable) => (last.exc = "none" /\ Untouched)

\* The call got a frame with bars and no Close column while a trade was live.
C20_Witness ==
    /\ AutoCalled
    /\ Len(call.df) > 0 /\ ~HasClose(call.df)
    /\ last.pre_trade # EmptyTrade
\* The detector's whole column for the recorded frame, as auto_trade calls it.
RecordedColumn ==
    find_peaks_and_valleys(call.df, DefaultDistance, PromNum, PromDen, FALSE).val

\* C28: the detector marks neither the first nor the last bar of a window, so
\* its answer for the last bar is Neutral; the signal auto_trade writes on
\* the last bar of its frame is Neutral, and the signal auto_trade selects
\* is never the last bar's.
C28_LastBarNeverActs ==
    (AutoCalled /\ Usable) =>
        /\ RecordedColumn[1] = Neutral
        /\ RecordedColumn[Len(call.df)] = Neutral
        /\ find_peaks_and_valleys(call.df, DefaultDistance, PromNum, PromDen,
                                  TRUE).val = Neutral
        /\ call.df_after[Len(call.df_after)].Signal = Neutral
        /\ last.sel.selected => last.sel.index_difference >= 1

\* The call got a frame of several bars whose last bar came in marked, and
\* acted on an earlier bar.
C28_Witness ==
    /\ AutoCalled /\ Usable
    /\ Len(call.df) > 1
    /\ call.df[Len(call.df)].Signal # Neutral
    /\ call.df_after[Len(call.df_after)].Signal = Neutral
    /\ last.sel.selected /\ last.sel.index_difference >= 1
    /\ ~Untouched

\* ------------------------------------------------ claims about lifecycle
OpenFields == {"type", "entry_date", "entry_price", "status"}

ExitFields == {"exit_date", "exit_price", "profit"}

\* C21: the live position has status open and no exit fields; every ledger
\* entry has status closed with exit date, exit price and profit set; a
\* position enters the ledger once, in the step that takes it out of the
\* slot, and the slot never holds a closed position.
C21_OneWayLifecycle ==
    /\ \A i \in 1..Len(current_trade) :
          current_trade[i].status = "open" /\ DOMAIN current_trade[i] = OpenFields
    /\ \A i \in 1..Len(trades) :
          /\ trades[i].status = "closed"
          /\ DOMAIN trades[i] = OpenFields \cup ExitFields
          /\ trades[i].exit_date # None /\ trades[i].exit_price # None
    /\ \/ trades = last.pre_trades
             /\ (current_trade = last.pre_trade \/ last.pre_trade = EmptyTrade)
       \/ ClosedPrevious

\* A live position stands next to a ledger entry that the last operation
\* appended when it took the previous position out of the slot.
C21_Witness ==
    /\ ClosedPrevious
    /\ current_trade # EmptyTrade
    /\ last.op \in TradeOps
\* C22: export_to_excel leaves the live position and the ledger as they
\* were, and with an empty ledger it writes no file and only prints.
C22_ExportReadOnly ==
    last.op = "export_to_excel" =>
        /\ current_trade = last.pre_trade /\ trades = last.pre_trades
        /\ trades = <<>> => last.effect = "message"

\* export_to_excel ran on an empty ledger while a position was live.
C22_Witness ==
    /\ last.op = "export_to_excel"
    /\ trades = <<>>
    /\ current_trade # EmptyTrade

\* C30: with the engine's date only ever moved forward, every ledger entry
\* was entered no later than it was closed, and the ledger is in the order of
\* its exit dates.
C30_LedgerTimeOrdered ==
    /\ \A i \in 1..Len(trades) :
          /\ trades[i].entry_date # None /\ trades[i].exit_date # None
          /\ trades[i].entry_date <= trades[i].exit_date
    /\ \A i \in 1..Len(trades) - 1 :
          trades[i].exit_date <= trades[i + 1].exit_date

\* Two trades closed at different dates, the second one held over a change
\* of date.
C30_Witness ==
    /\ Len(trades) = 2
    /\ trades[1].exit_date < trades[2].exit_date
    /\ trades[2].entry_date < trades[2].exit_date

\* ---------------------------------------------------------- ConfigManager
DefaultDataPath == "src/data/GBP_USD_M15.pkl"

StoredDataPath == "src/data/stored.pkl"

\* What config.json can hold: no file, a file that cannot be read, text that
\* is not JSON, JSON that is not an object, an object without data_path, an
\* object with it.
ConfigFiles ==
    {"absent", "unreadable", "not_json", "json_list", "json_string",
     "json_number", "json_null", "object_without_key", "object_with_key"}

\* The dictionary of the two return statements at lines 34 and 37.
DefaultConfig == [type |-> "dict", keys |-> {"data_path"}, data_path |-> DefaultDataPath]

\* json.load of the file's text: the parsed value, or the exception raised.
json_load(file) ==
    CASE file = "not_json" -> [val |-> DefaultConfig, exc |-> "JSONDecodeError"]
      [] file = "json_list" -> [val |-> [type |-> "list"], exc |-> "none"]
      [] file = "json_string" -> [val |-> [type |-> "str"], exc |-> "none"]
      [] file = "json_number" -> [val |-> [type |-> "int"], exc |-> "none"]
      [] file = "json_null" -> [val |-> [type |-> "NoneType"], exc |-> "none"]
      [] file = "object_without_key" ->
            [val |-> [type |-> "dict", keys |-> {}, data_path |-> ""], exc |-> "none"]
      [] file = "object_with_key" ->
            [val |-> [type |-> "dict", keys |-> {"data_path"},
                      data_path |-> StoredDataPath], exc |-> "none"]

\* _load_config: the parsed value when the file exists and json.load
\* succeeds, whatever its type; the default dictionary when the file does
\* not exist or open/json.load raise.
_load_config(file) ==
    IF file = "absent" THEN DefaultConfig
    ELSE IF file = "unreadable" THEN DefaultConfig
    ELSE IF json_load(file).exc # "none" THEN DefaultConfig
    ELSE json_load(file).val

\* get_data_path: self.config.get("data_path", default); only a dict has get.
get_data_path(config) ==
    IF config.type # "dict"
    THEN [val |-> "", exc |-> "AttributeError"]
    ELSE IF "data_path" \in config.keys
    THEN [val |-> config.data_path, exc |-> "none"]
    ELSE [val |-> DefaultDataPath, exc |-> "none"]
\* ------------------------------------------- PlotView and ControlPanel
\* The replay runs over the dates 1..MaxReplayTime in steps of one bar; the
\* End Date field holds the last of them.
EndDate == MaxReplayTime

Truthy(value) == value = "True"

\* PlotView.increment_plot: False when the data path cannot be had or the
\* file is missing, True when the next date reaches the end date; otherwise
\* it queues the JavaScript callback that will show the next date, and
\* returns False.
increment_plot(a) ==
    IF a.data_path.exc # "none" \/ ~a.data_exists
    THEN [a |-> a, ret |-> "False"]
    ELSE IF a.shown + 1 >= EndDate
    THEN [a |-> a, ret |-> "True"]
    ELSE [a |-> [a EXCEPT !.pending = Append(a.pending, a.shown + 1)],
          ret |-> "False"]

\* ControlPanel._increment_plot: calls increment_plot, drops its result, sets
\* the engine's date to the date shown, and returns None.  With the widgets
\* missing the argument list raises and the except prints.
_increment_plot(a) ==
    IF ~a.ui_built
    THEN [a |-> a, date |-> None, ret |-> "None", plot_ret |-> "None"]
    ELSE [a |-> increment_plot(a).a, date |-> a.shown,
          ret |-> "None", plot_ret |-> increment_plot(a).ret]

\* ControlPanel._stop_auto_increment.
_stop_auto_increment(a) ==
    [a EXCEPT !.auto_incrementing = FALSE, !.timer_active = FALSE,
              !.button_text = "Increment/Plot", !.checkbox = FALSE]

\* ControlPanel._auto_increment_step; `end_reported` keeps whether the
\* increment_plot call of this step returned True.
_auto_increment_step(a) ==
    IF ~a.auto_incrementing
    THEN [a |-> [a EXCEPT !.end_reported = FALSE], date |-> None]
    ELSE LET r == _increment_plot(a)
             a1 == [r.a EXCEPT !.end_reported = Truthy(r.plot_ret)]
         IN IF Truthy(r.ret)
            THEN [a |-> _stop_auto_increment(a1), date |-> r.date]
            ELSE [a |-> [a1 EXCEPT !.timer_active = TRUE], date |-> r.date]

\* ControlPanel._handle_increment_plot, the click on Increment/Plot.
_handle_increment_plot(a) ==
    IF a.checkbox /\ ~a.auto_incrementing
    THEN _auto_increment_step([a EXCEPT !.auto_incrementing = TRUE,
                                        !.button_text = "Stop Auto-Increment"])
    ELSE IF a.auto_incrementing
    THEN [a |-> [_stop_auto_increment(a) EXCEPT !.end_reported = FALSE], date |-> None]
    ELSE [a |-> [_increment_plot(a).a EXCEPT !.end_reported = FALSE],
          date |-> _increment_plot(a).date]

\* ControlPanel._update_auto_increment_state after the user flips the Auto
\* Increment checkbox.
_update_auto_increment_state(a) ==
    LET a1 == [a EXCEPT !.checkbox = ~a.checkbox, !.end_reported = FALSE]
    IN IF ~a1.checkbox /\ a1.auto_incrementing
       THEN [a |-> _stop_auto_increment(a1), date |-> None]
       ELSE IF a1.checkbox /\ ~a1.auto_incrementing
                /\ a1.button_text = "Stop Auto-Increment"
       THEN _auto_increment_step([a1 EXCEPT !.auto_incrementing = TRUE])
       ELSE [a |-> a1, date |-> None]
\* ------------------------------------------------ the application's run
\* main: "start" (line 20), "build" (line 21), "exec" (line 23, the event
\* loop), "close_*" (closeEvent inside the loop), "main_*" (line 24), "done".
\* Inside a stop(): "*_stop" is about to call it, "*_wait" is inside
\* server.shutdown(), "*_join" is inside join().
\* thread: the server thread, "not_started", "starting" (run has begun),
\* "created" (self.server assigned), "serving", "finished", "dead" (run
\* raised because the port could not be bound).
InitApp ==
    /\ trades = <<>>
    /\ current_trade = EmptyTrade
    /\ current_date = None
    /\ data = <<>>
    /\ last = [op |-> "init", pre_trade |-> EmptyTrade, pre_trades |-> <<>>,
               exc |-> "none", sel |-> NoSelection, effect |-> "none"]
    /\ call = NoCall
    /\ app \in [main : {"start"}, thread : {"not_started"}, server : {FALSE},
                 shutdown_request : {FALSE}, is_shut_down : {FALSE},
                 starts : {0}, stops : {0},
                 file : ConfigFiles, data_exists : BOOLEAN,
                 config : {DefaultConfig}, data_path : {[val |-> "", exc |-> "none"]},
                 ui_built : {FALSE}, auto_incrementing : {FALSE},
                 timer_active : {FALSE}, checkbox : {FALSE},
                 button_text : {"Increment/Plot"}, shown : {1},
                 pending : {<<>>}, end_reported : {FALSE}]

\* A step of the application: the engine's date changes when a handler called
\* set_current_date; callbacks beyond MaxPending are not queued.
AppStep(name, a, date) ==
    /\ Len(a.pending) <= MaxPending
    /\ app' = a
    /\ current_date' = IF date = None THEN current_date ELSE date
    /\ last' = [last EXCEPT !.op = name]
    /\ UNCHANGED <<trades, current_trade, data, call>>

\* main line 20: HTTPServerService.start, which starts the thread.
StartServer ==
    /\ app.main = "start"
    /\ AppStep("StartServer", [app EXCEPT !.main = "build", !.starts = @ + 1,
                           !.thread = "starting"], None)

\* main lines 21-22: MainWindow builds PlotView and ControlPanel; each makes a
\* ConfigManager, _setup_ui asks it for the data path (and stops there when
\* that raises), and ControlPanel.__init__ ends with _increment_plot().
BuildWindow ==
    /\ app.main = "build"
    /\ LET config == _load_config(app.file)
           a1 == [app EXCEPT !.main = "exec", !.config = config,
                             !.data_path = get_data_path(config),
                             !.ui_built = get_data_path(config).exc = "none"]
       IN AppStep("BuildWindow", _increment_plot(a1).a, _increment_plot(a1).date)

\* HTTPServerThread.run up to line 53: the HTTPServer is created, or the bind
\* fails and the thread dies.
ThreadCreate ==
    /\ app.thread = "starting"
    /\ \/ AppStep("ThreadCreate", [app EXCEPT !.thread = "created", !.server = TRUE], None)
       \/ AppStep("ThreadCreate", [app EXCEPT !.thread = "dead"], None)

\* serve_forever begins: it clears the is-shut-down event.
ThreadServe ==
    /\ app.thread = "created"
    /\ AppStep("ThreadServe", [app EXCEPT !.thread = "serving", !.is_shut_down = FALSE], None)

\* serve_forever sees the shutdown request, leaves its loop, resets the
\* request and sets the event; run returns.
ThreadExit ==
    /\ app.thread = "serving"
    /\ app.shutdown_request
    /\ AppStep("ThreadExit", [app EXCEPT !.thread = "finished", !.shutdown_request = FALSE,
                           !.is_shut_down = TRUE], None)

\* The user clicks Increment/Plot.
ClickIncrement ==
    /\ app.main = "exec" /\ app.ui_built
    /\ AppStep("ClickIncrement", _handle_increment_plot(app).a, _handle_increment_plot(app).date)

\* The user flips the Auto Increment checkbox.
ToggleAutoIncrement ==
    /\ app.main = "exec" /\ app.ui_built
    /\ AppStep("ToggleAutoIncrement", _update_auto_increment_state(app).a,
               _update_auto_increment_state(app).date)

\* The timer fires.
TimerTimeout ==
    /\ app.main = "exec" /\ app.timer_active
    /\ AppStep("TimerTimeout", _auto_increment_step(app).a, _auto_increment_step(app).date)

\* The page answers: handle_current_ranges shows the next date.  The replay
\* runs with the Auto trade box unchecked, so the callback does not call the
\* engine.
RunCallback ==
    /\ app.main = "exec" /\ app.pending # <<>>
    /\ AppStep("RunCallback", [app EXCEPT !.shown = Head(app.pending),
                           !.pending = Tail(app.pending),
                           !.end_reported = FALSE], None)

\* A closeEvent that accepts the event without stopping the server.
CloseWindow_without_stop ==
    /\ app.main = "exec"
    /\ AppStep("CloseWindow", [app EXCEPT !.main = "main_stop", !.end_reported = FALSE], None)

\* The user closes the window: closeEvent is entered.
CloseWindow ==
    /\ app.main = "exec"
    /\ AppStep("CloseWindow", [app EXCEPT !.main = "close_stop", !.end_reported = FALSE], None)

\* Where main is inside HTTPServerService.stop, and the phase that follows.
Stopping == {"close_stop", "main_stop"}
Waiting == {"close_wait", "main_wait"}
Joining == {"close_join", "main_join"}
WaitOf(pc) == IF pc = "close_stop" THEN "close_wait" ELSE "main_wait"
JoinOf(pc) == IF pc \in {"close_stop", "close_wait"} THEN "close_join" ELSE "main_join"
AfterJoin(pc) == IF pc = "close_join" THEN "main_stop" ELSE "done"

\* HTTPServerService.stop is entered and HTTPServerThread.stop runs: with a
\* server it calls shutdown(), which raises the request and waits for the
\* event; without one it returns and the service goes on to join().
StopCall ==
    /\ app.main \in Stopping
    /\ IF app.server
       THEN AppStep("StopCall", [app EXCEPT !.main = WaitOf(app.main), !.stops = @ + 1,
                                !.shutdown_request = TRUE], None)
       ELSE AppStep("StopCall", [app EXCEPT !.main = JoinOf(app.main), !.stops = @ + 1], None)

\* shutdown() returns once the is-shut-down event is set.
ShutdownWait ==
    /\ app.main \in Waiting
    /\ app.is_shut_down
    /\ AppStep("ShutdownWait", [app EXCEPT !.main = JoinOf(app.main)], None)

\* join() returns once the thread has ended; after closeEvent the event loop
\* exits and main goes on to line 24, after that main returns.
Join ==
    /\ app.main \in Joining
    /\ app.thread \in {"finished", "dead"}
    /\ AppStep("Join", [app EXCEPT !.main = AfterJoin(app.main)], None)

NextApp ==
    \/ StartServer
    \/ BuildWindow
    \/ ThreadCreate
    \/ ThreadServe
    \/ ThreadExit
    \/ ClickIncrement
    \/ ToggleAutoIncrement
    \/ TimerTimeout
    \/ RunCallback
    \/ CloseWindow
    \/ StopCall
    \/ ShutdownWait
    \/ Join

\* The thread is scheduled and main keeps running once it is inside stop();
\* what the user does is not forced.
SpecApp ==
    /\ InitApp
    /\ [][NextApp]_vars
    /\ WF_vars(ThreadCreate)
    /\ WF_vars(ThreadServe)
    /\ WF_vars(ThreadExit)
    /\ WF_vars(StopCall)
    /\ WF_vars(ShutdownWait)
    /\ WF_vars(Join)

\* ------------------------------------------------ claims on the application
\* How many times stop has been entered at each point of main.
StopsAt(pc) ==
    IF pc \in {"start", "build", "exec", "close_stop"} THEN 0
    ELSE IF pc \in {"close_wait", "close_join", "main_stop"} THEN 1
    ELSE 2

\* C23 as amended: over a run HTTPServerService.start is invoked once, and stop
\* is invoked twice, by closeEvent and by main after the event loop exits; a
\* complete run ends with one start and two stops.
C23_StartOnceStopTwice ==
    /\ app.starts = (IF app.main = "start" THEN 0 ELSE 1)
    /\ app.stops = StopsAt(app.main)
    /\ app.main = "done" => app.starts = 1 /\ app.stops = 2

\* C23 as written: a complete run has invoked start once and stop once.
C23_StartOnceStopOnce ==
    app.main = "done" => app.starts = 1 /\ app.stops = 1

C23_Witness == app.main = "done" /\ app.thread = "finished"

\* C24: whatever config.json holds, building the ConfigManager and asking it
\* for the data path raises nothing, and the answer is the default path
\* unless the file is an object with a data_path.
C24_DataPathNeverRaises ==
    app.main \notin {"start", "build"} =>
        /\ app.data_path.exc = "none"
        /\ app.file # "object_with_key" => app.data_path.val = DefaultDataPath

\* C27: when a step of the auto-increment finds the next date at or past the
\* end date, the loop stops: auto_incrementing is False and the timer is
\* stopped.
C27_EndStopsAutoIncrement ==
    app.end_reported => ~app.auto_incrementing /\ ~app.timer_active

\* main is inside a stop(): in shutdown() or in join().
InStop == app.main \in Waiting \cup Joining

\* C29: a stop() called after start() always returns, under every
\* interleaving of main and the server thread, also when it runs before
\* the thread has created its HTTPServer.
C29_StopTerminates == InStop ~> ~InStop
====
